---- MODULE Spec2Model ----
(***************************************************************************)
(* A model of the game engine of turtris (src/src/app.rs): the board, the  *)
(* active piece, the translation and rotation transforms, the legality     *)
(* check, and the key handler that moves, rotates and places the piece.     *)
(*                                                                         *)
(* Positions are 4-tuples <<w, x, y, z>> of board indices, 0-based as in   *)
(* the source.  The board is a sequence of cells (a Vec<Cell>); the cell   *)
(* of 0-based index i is board[i + 1].  A cell is its Option<Color>: a     *)
(* colour name, or None.                                                   *)
(*                                                                         *)
(* Rendering (view, to_hex) and the registration of the key listener       *)
(* (Msg::ListenKeydown) do not touch the board or the piece and are left    *)
(* out.  A failed unwrap or an index out of range is recorded in the        *)
(* variable panicked, after which no key is handled.                       *)
(***************************************************************************)
EXTENDS Integers, Sequences, FiniteSets, TLC

\* ------------------------------------------------------------ bounds
\* Pieces are placed only among the first MaxPlaceDepth Move, Rotate and
\* Place commands of a session; moves and rotations go on without bound.
MaxPlaceDepth == 1

\* ------------------------------------------------------------ constants
BOARD_WIDTH == 10
BOARD_HEIGHT == 24
\* The largest value of the signed 16-bit type of a TheoritcalPosition.
I16_MAX == 32767

Color == {"Turquoise", "Blue", "Orange", "Yellow", "Green", "Purple", "Red"}
None == "None"
Direction == {"Up", "Down", "Left", "Right"}
\* The keys the handler tells apart; "x" stands for every other key.
Keys == {"a", "s", "d", "w", "p", " ", "x"}

\* The value of a computation that panicked (a failed unwrap, an index out
\* of range): no position has length 0.
Panic == <<>>

\* Rust's % on signed integers truncates towards zero.
Rem(a, b) == IF a >= 0 THEN a % b ELSE -((-a) % b)

Min2(a, b) == IF a <= b THEN a ELSE b
\* iter().min() over four values
Min4(a, b, c, d) == Min2(Min2(a, b), Min2(c, d))

\* ------------------------------------------------------------ conversions
position_to_theoritical(position) ==
    IF \E i \in 1..4 : position[i] > I16_MAX THEN Panic ELSE position

position_from_theoritical(theoritcal) ==
    IF \E i \in 1..4 : theoritcal[i] < 0 THEN Panic ELSE theoritcal

\* ------------------------------------------------------------ pieces
Piece_new(random_js_number) ==
    CASE random_js_number = 0 -> [color |-> "Yellow", position |-> <<4, 5, 14, 15>>]
      [] random_js_number = 1 -> [color |-> "Green", position |-> <<14, 15, 5, 6>>]
      [] random_js_number = 2 -> [color |-> "Red", position |-> <<4, 5, 15, 16>>]
      [] random_js_number = 3 -> [color |-> "Purple", position |-> <<5, 14, 15, 16>>]
      [] random_js_number = 4 -> [color |-> "Orange", position |-> <<14, 15, 16, 6>>]
      [] random_js_number = 5 -> [color |-> "Blue", position |-> <<4, 14, 15, 16>>]
      [] OTHER -> [color |-> "Turquoise", position |-> <<4, 14, 24, 34>>]

\* Math.floor(Math.random() * 7)
RandomNumbers == 0..6

occupies_cell(piece, index) ==
    \E i \in 1..4 : index = piece.position[i]

\* ------------------------------------------------------------ board
\* init_board without the cell it seeds.
init_board_unseeded ==
    [i \in 1..(BOARD_WIDTH * BOARD_HEIGHT) |-> None]

\* vec![Cell { color: None }; 240] with board[232] set to Red.
init_board ==
    [i \in 1..(BOARD_WIDTH * BOARD_HEIGHT) |-> IF i = 232 + 1 THEN "Red" ELSE None]

\* board[index] of the source; reading out of range panics there.
InRange(board, index) == index >= 0 /\ index < Len(board)
CellAt(board, index) == board[index + 1]

\* ------------------------------------------------------------ transforms
\* calculate_new_position with a slip in the Left arm: z is shifted the other way.
calculate_new_position_slip(piece_position, direction) ==
    LET t == position_to_theoritical(piece_position)
        width == BOARD_WIDTH
    IN  IF t = Panic THEN Panic
        ELSE CASE direction = "Down" ->
                    <<t[1] + width, t[2] + width, t[3] + width, t[4] + width>>
               [] direction = "Up" ->
                    <<t[1] - width, t[2] - width, t[3] - width, t[4] - width>>
               [] direction = "Left" -> <<t[1] - 1, t[2] - 1, t[3] - 1, t[4] + 1>>
               [] direction = "Right" -> <<t[1] + 1, t[2] + 1, t[3] + 1, t[4] + 1>>

calculate_new_position(piece_position, direction) ==
    LET t == position_to_theoritical(piece_position)
        width == BOARD_WIDTH
    IN  IF t = Panic THEN Panic
        ELSE CASE direction = "Down" ->
                    <<t[1] + width, t[2] + width, t[3] + width, t[4] + width>>
               [] direction = "Up" ->
                    <<t[1] - width, t[2] - width, t[3] - width, t[4] - width>>
               [] direction = "Left" -> <<t[1] - 1, t[2] - 1, t[3] - 1, t[4] - 1>>
               [] direction = "Right" -> <<t[1] + 1, t[2] + 1, t[3] + 1, t[4] + 1>>

\* The match of calculate_rotation: normalized shape -> <<next shape, additional_adjust>>.
RotationTable ==
    << \* yellow
       << <<0, 1, 10, 11>>, <<0, 1, 10, 11>>, 0 >>,
       \* red
       << <<0, 1, 11, 12>>, <<1, 10, 11, 20>>, 0 >>,
       << <<1, 10, 11, 20>>, <<0, 1, 11, 12>>, 0 >>,
       \* green
       << <<10, 11, 1, 2>>, <<0, 10, 11, 21>>, 0 >>,
       << <<0, 10, 11, 21>>, <<10, 11, 1, 2>>, 0 >>,
       \* purple
       << <<1, 10, 11, 12>>, <<1, 11, 12, 21>>, 0 >>,
       << <<0, 10, 11, 20>>, <<9, 10, 11, 20>>, 0 >>,
       << <<0, 1, 2, 11>>, <<1, 10, 11, 21>>, -10 >>,
       << <<1, 10, 11, 21>>, <<1, 10, 11, 12>>, 0 >>,
       \* orange
       << <<10, 11, 12, 2>>, <<1, 11, 21, 22>>, 0 >>,
       << <<0, 10, 20, 21>>, <<10, 11, 12, 20>>, -1 >>,
       << <<0, 1, 2, 10>>, <<1, 2, 12, 22>>, -10 >>,
       << <<0, 1, 11, 21>>, <<10, 11, 12, 2>>, -1 >>,
       \* blue
       << <<0, 10, 11, 12>>, <<1, 2, 11, 21>>, 0 >>,
       << <<0, 1, 10, 20>>, <<0, 1, 2, 12>>, -1 >>,
       << <<0, 1, 2, 12>>, <<2, 12, 21, 22>>, 0 >>,
       << <<1, 11, 20, 21>>, <<0, 10, 11, 12>>, -1 >>,
       \* turquoise
       << <<0, 10, 20, 30>>, <<0, 1, 2, 3>>, 9 >>,
       << <<0, 1, 2, 3>>, <<0, 10, 20, 30>>, -9 >> >>

RotationKeys == {RotationTable[k][1] : k \in 1..Len(RotationTable)}

horizontal_adjust(cells) ==
    Min4(cells[1] % 10, cells[2] % 10, cells[3] % 10, cells[4] % 10)
vertical_adjust(cells) ==
    Min4(cells[1] \div 10, cells[2] \div 10, cells[3] \div 10, cells[4] \div 10)

\* The scrutinee of the match: the position relative to its bounding box.
Normalized(cells) ==
    LET origin == horizontal_adjust(cells) + vertical_adjust(cells) * 10
    IN  <<cells[1] - origin, cells[2] - origin, cells[3] - origin, cells[4] - origin>>

\* MatchArm whose catch-all arm carries an adjustment of one cell.
MatchArm_catch_all_adjusts(adjusted) ==
    IF adjusted \in RotationKeys
    THEN LET k == CHOOSE j \in 1..Len(RotationTable) :
                      /\ RotationTable[j][1] = adjusted
                      /\ \A h \in 1..(j - 1) : RotationTable[h][1] # adjusted
         IN  <<RotationTable[k][2], RotationTable[k][3]>>
    ELSE <<adjusted, 1>>

\* MatchArm with every additional_adjust dropped.
MatchArm_no_adjust(adjusted) ==
    IF adjusted \in RotationKeys
    THEN LET k == CHOOSE j \in 1..Len(RotationTable) :
                      /\ RotationTable[j][1] = adjusted
                      /\ \A h \in 1..(j - 1) : RotationTable[h][1] # adjusted
         IN  <<RotationTable[k][2], 0>>
    ELSE <<adjusted, 0>>

\* The arm the match takes: the first whose pattern is the scrutinee, and
\* the catch-all arm (the scrutinee itself, no adjustment) when there is none.
MatchArm(adjusted) ==
    IF adjusted \in RotationKeys
    THEN LET k == CHOOSE j \in 1..Len(RotationTable) :
                      /\ RotationTable[j][1] = adjusted
                      /\ \A h \in 1..(j - 1) : RotationTable[h][1] # adjusted
         IN  <<RotationTable[k][2], RotationTable[k][3]>>
    ELSE <<adjusted, 0>>

\* calculate_rotation with a slip in the tuple it returns: y is given twice.
calculate_rotation_slip(piece_position) ==
    LET cells == position_to_theoritical(piece_position)
    IN  IF cells = Panic THEN Panic
        ELSE LET arm == MatchArm(Normalized(cells))
                 back == horizontal_adjust(cells) + vertical_adjust(cells) * 10 + arm[2]
             IN  <<arm[1][1] + back, arm[1][2] + back, arm[1][3] + back, arm[1][3] + back>>

calculate_rotation(piece_position) ==
    LET cells == position_to_theoritical(piece_position)
    IN  IF cells = Panic THEN Panic
        ELSE LET arm == MatchArm(Normalized(cells))
                 back == horizontal_adjust(cells) + vertical_adjust(cells) * 10 + arm[2]
             IN  <<arm[1][1] + back, arm[1][2] + back, arm[1][3] + back, arm[1][4] + back>>

\* ------------------------------------------------------------ legality
\* PairOutcome without the "cell is taken" arm.
PairOutcome_no_taken(board, old, new) ==
    IF new < 0 \/ new > 239 THEN "false"
    ELSE IF (old + 1) % 10 = 0 /\ Rem(new, 10) = 0 THEN "false"
    ELSE IF old % 10 = 0 /\ Rem(new + 1, 10) = 0 THEN "false"
    ELSE "next"

\* PairOutcome without the "left bound" arm.
PairOutcome_no_left(board, old, new) ==
    IF new < 0 \/ new > 239 THEN "false"
    ELSE IF (old + 1) % 10 = 0 /\ Rem(new, 10) = 0 THEN "false"
    ELSE IF ~InRange(board, new) THEN "panic"
    ELSE IF CellAt(board, new) # None THEN "false"
    ELSE "next"

\* PairOutcome without the "right bound" arm.
PairOutcome_no_right(board, old, new) ==
    IF new < 0 \/ new > 239 THEN "false"
    ELSE IF old % 10 = 0 /\ Rem(new + 1, 10) = 0 THEN "false"
    ELSE IF ~InRange(board, new) THEN "panic"
    ELSE IF CellAt(board, new) # None THEN "false"
    ELSE "next"

\* PairOutcome with the bottom bound off by one (new > 240).
PairOutcome_off_by_one(board, old, new) ==
    IF new < 0 \/ new > 240 THEN "false"
    ELSE IF (old + 1) % 10 = 0 /\ Rem(new, 10) = 0 THEN "false"
    ELSE IF old % 10 = 0 /\ Rem(new + 1, 10) = 0 THEN "false"
    ELSE IF ~InRange(board, new) THEN "panic"
    ELSE IF CellAt(board, new) # None THEN "false"
    ELSE "next"

\* PairOutcome whose "cell is taken" arm reads the old cell, not the new one.
PairOutcome_taken_at_old(board, old, new) ==
    IF new < 0 \/ new > 239 THEN "false"
    ELSE IF (old + 1) % 10 = 0 /\ Rem(new, 10) = 0 THEN "false"
    ELSE IF old % 10 = 0 /\ Rem(new + 1, 10) = 0 THEN "false"
    ELSE IF ~InRange(board, old) THEN "panic"
    ELSE IF CellAt(board, old) # None THEN "false"
    ELSE "next"

\* One iteration of the loop of move_is_legal, on the pair (old, new): the
\* arms of its match in order.  "false" is `return false`, "next" is the
\* fall-through arm, "panic" is a failed unwrap or index in the fourth arm.
PairOutcome(board, old, new) ==
    IF new < 0 \/ new > 239 THEN "false"
    ELSE IF (old + 1) % 10 = 0 /\ Rem(new, 10) = 0 THEN "false"
    ELSE IF old % 10 = 0 /\ Rem(new + 1, 10) = 0 THEN "false"
    ELSE IF ~InRange(board, new) THEN "panic"
    ELSE IF CellAt(board, new) # None THEN "false"
    ELSE "next"

\* LegalFrom that returns after judging the first pair.
RECURSIVE LegalFrom_first(_, _, _, _)
LegalFrom_first(board, old_position, new_position, i) ==
    IF i > 1 THEN "true"
    ELSE LET outcome == PairOutcome(board, old_position[i], new_position[i])
         IN  IF outcome = "next"
             THEN LegalFrom_first(board, old_position, new_position, i + 1)
             ELSE outcome

\* The loop over the four pairs in order: the result is that of the first
\* pair whose outcome is not "next", and "true" when there is none.
RECURSIVE LegalFrom(_, _, _, _)
LegalFrom(board, old_position, new_position, i) ==
    IF i > 4 THEN "true"
    ELSE LET outcome == PairOutcome(board, old_position[i], new_position[i])
         IN  IF outcome = "next"
             THEN LegalFrom(board, old_position, new_position, i + 1)
             ELSE outcome

\* "true" or "false" as the source returns them, or "panic".
move_is_legal(board, old_position, new_position) ==
    LegalFrom(board, old_position, new_position, 1)

\* ------------------------------------------------------------ attempts
\* The if of attempt_move / attempt_rotate on a candidate: the position it
\* returns, or Panic when computing the candidate or the check panics.
Commit(board, piece_position, new_position) ==
    IF new_position = Panic THEN Panic
    ELSE LET legal == move_is_legal(board, piece_position, new_position)
         IN  CASE legal = "true" -> position_from_theoritical(new_position)
               [] legal = "false" -> piece_position
               [] OTHER -> Panic

\* attempt_move without its call of move_is_legal: the candidate is always committed.
attempt_move_unchecked(board, piece_position, direction) ==
    position_from_theoritical(calculate_new_position(piece_position, direction))

attempt_move(board, piece_position, direction) ==
    Commit(board, piece_position, calculate_new_position(piece_position, direction))

attempt_rotate(board, piece_position) ==
    Commit(board, piece_position, calculate_rotation(piece_position))

\* Whether the candidate was computed and judged legal.
Judged(board, piece_position, new_position) ==
    /\ new_position # Panic
    /\ move_is_legal(board, piece_position, new_position) = "true"

\* ------------------------------------------------------------ input
\* decode_event with the catch-all arm decoding to a move.
decode_event_catch_all(key) ==
    CASE key = "a" -> [type |-> "MoveCurrentPiece", direction |-> "Left"]
      [] key = "s" -> [type |-> "MoveCurrentPiece", direction |-> "Down"]
      [] key = "d" -> [type |-> "MoveCurrentPiece", direction |-> "Right"]
      [] key = "w" -> [type |-> "MoveCurrentPiece", direction |-> "Up"]
      [] key = "p" -> [type |-> "PlaceCurrentPiece", direction |-> "none"]
      [] key = " " -> [type |-> "RotateCurrentPiece", direction |-> "none"]
      [] OTHER -> [type |-> "MoveCurrentPiece", direction |-> "Down"]

decode_event(key) ==
    CASE key = "a" -> [type |-> "MoveCurrentPiece", direction |-> "Left"]
      [] key = "s" -> [type |-> "MoveCurrentPiece", direction |-> "Down"]
      [] key = "d" -> [type |-> "MoveCurrentPiece", direction |-> "Right"]
      [] key = "w" -> [type |-> "MoveCurrentPiece", direction |-> "Up"]
      [] key = "p" -> [type |-> "PlaceCurrentPiece", direction |-> "none"]
      [] key = " " -> [type |-> "RotateCurrentPiece", direction |-> "none"]
      [] OTHER -> [type |-> "NoOP", direction |-> "none"]

\* ------------------------------------------------------------ state
VARIABLES
    board,          \* state.board
    current_piece,  \* state.current_piece: [color, position]
    panicked,       \* the handler hit a failed unwrap or an index out of range
    last,           \* history: the last key, and whether its candidate was judged legal
    depth,          \* history: Move, Rotate and Place commands so far, capped
    rotations,      \* history: the run of Rotate commands since the spawn (5: broken)
    locks           \* history: pieces placed so far

vars == <<board, current_piece, panicked, last, depth, rotations, locks>>

\* App::create: the initial board and a random piece; no key was handled yet.
Init ==
    /\ board = init_board
    /\ \E n \in RandomNumbers : current_piece = Piece_new(n)
    /\ panicked = FALSE
    /\ last = [key |-> "", legal |-> TRUE]
    /\ depth = 0
    /\ rotations = 0
    /\ locks = 0

CountCommand == IF depth < MaxPlaceDepth THEN depth + 1 ELSE depth

\* self.state.current_piece.position = <new_position>, unless computing it panicked.
SetPosition(new_position) ==
    IF new_position = Panic
    THEN /\ panicked' = TRUE
         /\ UNCHANGED current_piece
    ELSE /\ panicked' = FALSE
         /\ current_piece' = [current_piece EXCEPT !.position = new_position]

MoveCurrentPiece(direction) ==
    /\ SetPosition(attempt_move(board, current_piece.position, direction))
    /\ depth' = CountCommand
    /\ rotations' = 5
    /\ UNCHANGED <<board, locks>>

RotateCurrentPiece ==
    /\ SetPosition(attempt_rotate(board, current_piece.position))
    /\ depth' = CountCommand
    /\ rotations' = IF rotations < 4 THEN rotations + 1 ELSE 5
    /\ UNCHANGED <<board, locks>>

\* The loop of the PlaceCurrentPiece arm: the cells w, x, y, z written in
\* turn; a write out of range panics and leaves the earlier writes done.
RECURSIVE Burn(_, _, _, _)
RECURSIVE Burn_three(_, _, _, _)
RECURSIVE Burn_shifted(_, _, _, _)

\* Burn with the loop stopping one cell short.
Burn_three(b, position, color, i) ==
    IF i > 3 THEN [board |-> b, panic |-> FALSE]
    ELSE IF ~InRange(b, position[i]) THEN [board |-> b, panic |-> TRUE]
    ELSE Burn_three([b EXCEPT ![position[i] + 1] = color], position, color, i + 1)

\* Burn writing each colour one cell to the right of the index.
Burn_shifted(b, position, color, i) ==
    IF i > 4 THEN [board |-> b, panic |-> FALSE]
    ELSE IF ~InRange(b, position[i] + 1) THEN [board |-> b, panic |-> TRUE]
    ELSE Burn_shifted([b EXCEPT ![position[i] + 2] = color], position, color, i + 1)

\* Burn writing into a fresh, empty board instead of the board it is given.
Burn_fresh(b, position, color, i) ==
    [board |-> [c \in 1..Len(b) |->
                    IF \E j \in 1..4 : position[j] + 1 = c THEN color ELSE None],
     panic |-> \E j \in 1..4 : ~InRange(b, position[j])]

Burn(b, position, color, i) ==
    IF i > 4 THEN [board |-> b, panic |-> FALSE]
    ELSE IF ~InRange(b, position[i]) THEN [board |-> b, panic |-> TRUE]
    ELSE Burn([b EXCEPT ![position[i] + 1] = color], position, color, i + 1)

PlaceCurrentPiece(random_js_number) ==
    LET burnt == Burn(board, current_piece.position, current_piece.color, 1)
    IN  /\ depth < MaxPlaceDepth
        /\ board' = burnt.board
        /\ panicked' = burnt.panic
        /\ current_piece' = IF burnt.panic THEN current_piece
                            ELSE Piece_new(random_js_number)
        /\ depth' = CountCommand
        /\ rotations' = 0
        /\ locks' = locks + 1

NoOP ==
    /\ rotations' = 5
    /\ UNCHANGED <<board, current_piece, panicked, depth, locks>>

\* Whether the step's candidate was judged legal, read off the step: a
\* candidate that differs from the old position is the new position exactly
\* when it was judged legal; one that equals it is judged again.
Accepted(candidate) ==
    /\ ~panicked'
    /\ IF candidate = current_piece.position
       THEN Judged(board, current_piece.position, candidate)
       ELSE current_piece'.position = candidate

\* TRUE for the commands that have no candidate.
CandidateLegal(event) ==
    CASE event.type = "MoveCurrentPiece" ->
            Accepted(calculate_new_position(current_piece.position, event.direction))
      [] event.type = "RotateCurrentPiece" ->
            Accepted(calculate_rotation(current_piece.position))
      [] OTHER -> TRUE

\* What every arm of the handler shares: the history records the key.
Handled(key, event) ==
    last' = [key |-> key, legal |-> CandidateLegal(event)]

\* Msg::HandleKeyDown(event): one key, decoded and dispatched.  A panic ends
\* the program: no key is handled after it.
HandleKeyDown(key) ==
    LET event == decode_event(key)
    IN  \/ /\ event.type = "MoveCurrentPiece"
           /\ ~panicked
           /\ MoveCurrentPiece(event.direction)
           /\ Handled(key, event)
        \/ /\ event.type = "RotateCurrentPiece"
           /\ ~panicked
           /\ RotateCurrentPiece
           /\ Handled(key, event)
        \/ /\ event.type = "PlaceCurrentPiece"
           /\ ~panicked
           /\ \E n \in RandomNumbers : PlaceCurrentPiece(n)
           /\ Handled(key, event)
        \/ /\ event.type = "NoOP"
           /\ ~panicked
           /\ NoOP
           /\ Handled(key, event)

Next == \E key \in Keys : HandleKeyDown(key)

Spec == Init /\ [][Next]_vars

\* ------------------------------------------------------------ geometry
Col(index) == index % BOARD_WIDTH
Row(index) == index \div BOARD_WIDTH
Position == current_piece.position

SetMin(S) == CHOOSE m \in S : \A n \in S : m <= n

\* The <<col, row>> cells of a position.
CellsOf(position) == {<<Col(position[i]), Row(position[i])>> : i \in 1..4}

\* A set of <<col, row>> cells moved to the origin of its bounding box.
AtOrigin(S) ==
    LET c0 == SetMin({c[1] : c \in S})
        r0 == SetMin({c[2] : c \in S})
    IN  {<<c[1] - c0, c[2] - r0>> : c \in S}

\* A quarter turn of a set of cells.
Turned(S) == AtOrigin({<<-c[2], c[1]>> : c \in S})

\* The four orientations of a shape.
Orientations(S) ==
    {AtOrigin(S), Turned(S), Turned(Turned(S)), Turned(Turned(Turned(S)))}

\* The seven tetrominoes, by the colour the game gives them.
Tetromino(color) ==
    CASE color = "Yellow" -> {<<0, 0>>, <<1, 0>>, <<0, 1>>, <<1, 1>>}
      [] color = "Green" -> {<<1, 0>>, <<2, 0>>, <<0, 1>>, <<1, 1>>}
      [] color = "Red" -> {<<0, 0>>, <<1, 0>>, <<1, 1>>, <<2, 1>>}
      [] color = "Purple" -> {<<1, 0>>, <<0, 1>>, <<1, 1>>, <<2, 1>>}
      [] color = "Orange" -> {<<2, 0>>, <<0, 1>>, <<1, 1>>, <<2, 1>>}
      [] color = "Blue" -> {<<0, 0>>, <<0, 1>>, <<1, 1>>, <<2, 1>>}
      [] color = "Turquoise" -> {<<0, 0>>, <<0, 1>>, <<0, 2>>, <<0, 3>>}

RigidPlacement(piece) ==
    AtOrigin(CellsOf(piece.position)) \in Orientations(Tetromino(piece.color))

\* ------------------------------------------------------------ claims

\* C1: in every reachable state each of the active piece's 4 indices lies in
\* [0, 240), so placing the piece writes no cell out of the board's range.
C1_IndicesInRange ==
    /\ \A i \in 1..4 : Position[i] >= 0 /\ Position[i] < 240
    /\ ~Burn(board, Position, current_piece.color, 1).panic

\* C1 witness: a piece resting on the bottom row after a Down its candidate
\* left the board for.
C1_Witness ==
    /\ last = [key |-> "s", legal |-> FALSE]
    /\ \E i \in 1..4 : Position[i] >= 230
    /\ ~panicked

\* C2: in every reachable state the active piece's 4 cells, read as
\* (col, row), are one of the orientations of its tetromino.
C2_RigidShape == RigidPlacement(current_piece)

\* The candidate of the command a key decodes to (Move and Rotate only).
MoveKeys == {"a", "s", "d", "w"}
CandidateOf(key) ==
    IF key = " " THEN calculate_rotation(Position)
    ELSE calculate_new_position(Position, decode_event(key).direction)

\* The four tests: some pair (old, new) has new off the board, or wraps
\* round the right or the left edge, or has new occupied.
FailsATest(b, old_position, new_position) ==
    \E i \in 1..4 :
        LET old == old_position[i]
            new == new_position[i]
        IN  \/ new < 0
            \/ new >= 240
            \/ Col(old) = 9 /\ new % 10 = 0
            \/ Col(old) = 0 /\ new % 10 = 9
            \/ new >= 0 /\ new < 240 /\ b[new + 1] # None

\* C3: a Move or Rotate whose candidate fails one of the four tests on some
\* pair leaves the position as it was, for translation and rotation alike.
C3_RejectionTotal ==
    [][\A key \in MoveKeys \cup {" "} :
          last'.key = key /\ FailsATest(board, Position, CandidateOf(key))
              => current_piece'.position = Position]_vars

\* C3 witness: a rotation was rejected on a board with a placed piece.
C3_Witness ==
    /\ last = [key |-> " ", legal |-> FALSE]
    /\ locks = 1
    /\ FailsATest(board, Position, calculate_rotation(Position))

\* The fixed delta of a direction.
Delta(direction) ==
    CASE direction = "Up" -> -10
      [] direction = "Down" -> 10
      [] direction = "Left" -> -1
      [] direction = "Right" -> 1

Shifted(position, d) ==
    <<position[1] + d, position[2] + d, position[3] + d, position[4] + d>>

DirectionOfKey(key) ==
    CASE key = "w" -> "Up" [] key = "s" -> "Down"
      [] key = "a" -> "Left" [] key = "d" -> "Right"

\* C4: a Move leaves the piece with all 4 indices shifted by the delta of
\* its direction, or unchanged; never partly shifted.
C4_MoveShiftsAllOrNone ==
    [][\A key \in MoveKeys :
          last'.key = key
              => \/ current_piece'.position = Shifted(Position, Delta(DirectionOfKey(key)))
                 \/ current_piece'.position = Position]_vars

\* C4 witness: an accepted Left, away from the spawn column.
C4_Witness ==
    /\ last = [key |-> "a", legal |-> TRUE]
    /\ \E i \in 1..4 : Col(Position[i]) = 0

\* C5: with a cell in the rightmost column a Move(Right) leaves the position
\* unchanged, and with a cell in the leftmost column so does a Move(Left).
C5_NoWrap ==
    [][/\ (last'.key = "d" /\ \E i \in 1..4 : Col(Position[i]) = 9)
            => current_piece'.position = Position
       /\ (last'.key = "a" /\ \E i \in 1..4 : Col(Position[i]) = 0)
            => current_piece'.position = Position]_vars

\* C5 witness: a Right rejected for the right edge alone: every target cell
\* is on the board and empty.
C5_Witness ==
    /\ last = [key |-> "d", legal |-> FALSE]
    /\ \E i \in 1..4 : Col(Position[i]) = 9
    /\ \A i \in 1..4 : Position[i] + 1 < 240 /\ CellAt(board, Position[i] + 1) = None

SpawnEntries ==
    { [color |-> "Yellow", position |-> <<4, 5, 14, 15>>],
      [color |-> "Green", position |-> <<14, 15, 5, 6>>],
      [color |-> "Red", position |-> <<4, 5, 15, 16>>],
      [color |-> "Purple", position |-> <<5, 14, 15, 16>>],
      [color |-> "Orange", position |-> <<14, 15, 16, 6>>],
      [color |-> "Blue", position |-> <<4, 14, 15, 16>>],
      [color |-> "Turquoise", position |-> <<4, 14, 24, 34>>] }

C8_OnlyLockWrites ==
    /\ [](Len(board) = 240)
    /\ [][(last'.key # "p"
               => board' = board /\ current_piece'.color = current_piece.color)
           /\ (last'.key = "x" => current_piece'.position = Position)]_vars

\* C8 witness: a key that is no command was handled after a piece had moved.
C8_Witness ==
    /\ last.key = "x"
    /\ locks = 1
    /\ current_piece \notin SpawnEntries

\* C9: no command fails: handling a key never panics.
C9_NoPanic == ~panicked

\* C9 witness: an Up whose candidate is negative was rejected, and the
\* program runs on.
C9_Witness ==
    /\ last = [key |-> "w", legal |-> FALSE]
    /\ \E i \in 1..4 : Position[i] - 10 < 0
    /\ ~panicked

\* C10: on the initial board four Rotates in a row from the spawn return
\* the piece to its spawn position, and each shape rotated on the way is a
\* key of the rotation table.
C10_FourRotations ==
    locks = 0 =>
        /\ rotations = 4 => current_piece \in SpawnEntries
        /\ rotations \in 0..3 => Normalized(Position) \in RotationKeys

\* C10 witness: the fourth Rotate of a piece whose orientations differ.
C10_Witness ==
    /\ locks = 0
    /\ rotations = 4
    /\ current_piece.color = "Orange"
    /\ last = [key |-> " ", legal |-> TRUE]

\* C11: at game start, before any key is handled, every one of the 240
\* grid cells is empty.
C11_StartsEmpty ==
    (last.key = "" /\ locks = 0)
        => /\ Len(board) = 240
           /\ \A c \in 0..239 : CellAt(board, c) = None

\* C12: the square piece on the initial board, anywhere on its descent from
\* the spawn (4,5,14,15): one Down from the spawn gives (14,15,24,25); a
\* Down shifts all four indices by +10 when the candidate is below 240 and
\* on empty cells and otherwise leaves the position where it is, so the
\* first rejected Down is repeated by every further one; the descent has at
\* most 23 accepted steps.  A Rotate leaves the square where it is.
SquareSpawn == <<4, 5, 14, 15>>
OnSquareDescent ==
    /\ current_piece.color = "Yellow"
    /\ locks = 0
    /\ Position[1] % 10 = SquareSpawn[1]
C12_SquareDescent ==
    [][/\ OnSquareDescent =>
            /\ \E k \in 0..23 : Position = Shifted(SquareSpawn, 10 * k)
            /\ (last'.key = "s" /\ Position = SquareSpawn)
                  => current_piece'.position = <<14, 15, 24, 25>>
            /\ last'.key = "s" =>
                  LET candidate == Shifted(Position, 10)
                  IN  IF \A i \in 1..4 : /\ candidate[i] < 240
                                         /\ CellAt(board, candidate[i]) = None
                      THEN current_piece'.position = candidate
                      ELSE current_piece'.position = Position
       /\ (current_piece.color = "Yellow" /\ last'.key = " ")
            => current_piece'.position = Position]_vars

\* C12 witness: the square is at the bottom of its descent and the Down
\* that would leave the board was rejected.
C12_Witness ==
    /\ OnSquareDescent
    /\ Position = Shifted(SquareSpawn, 220)
    /\ last = [key |-> "s", legal |-> FALSE]

\* C13: on the initial board, whose cell 232 is taken, a Down whose candidate
\* has a cell on 232 is rejected and leaves the position where it is, and a
\* Down whose four candidate cells are below 240 and empty is accepted: a
\* descent is stopped at the step that would land on 232 and not before.
C13_StoppedAt232 ==
    [][(locks = 0 /\ last'.key = "s") =>
          LET candidate == Shifted(Position, 10)
          IN  /\ (\E i \in 1..4 : candidate[i] = 232)
                    => (current_piece'.position = Position /\ ~last'.legal)
              /\ (\A i \in 1..4 : /\ candidate[i] < 240
                                   /\ CellAt(board, candidate[i]) = None)
                    => (current_piece'.position = candidate /\ last'.legal)]_vars

\* C13 witness: a piece has come down to the row above cell 232 and the
\* Down onto it was rejected.
C13_Witness ==
    /\ locks = 0
    /\ last = [key |-> "s", legal |-> FALSE]
    /\ \E i \in 1..4 : Position[i] + 10 = 232
    /\ \A i \in 1..4 : Position[i] + 10 < 240

\* C14: the active piece never covers a grid cell that is already taken.
C14_NoOverlap ==
    \A i \in 1..4 :
        InRange(board, Position[i]) => CellAt(board, Position[i]) = None

\* C15: for a position whose normalized 4-tuple is not a key of the
\* rotation table the rotation candidate is the position itself, and a
\* Rotate leaves the position unchanged.
C15_UnknownShapeStays ==
    [][(last'.key = " " /\ Normalized(Position) \notin RotationKeys) =>
          /\ calculate_rotation(Position) = Position
          /\ current_piece'.position = Position]_vars

\* C15 witness: the I piece that a rotation in column 8 laid across the
\* right edge was moved up to row 0, where no rotation can put it, and then
\* rotated.
C15_Witness ==
    /\ last = [key |-> " ", legal |-> TRUE]
    /\ current_piece = [position |-> <<7, 8, 9, 10>>, color |-> "Turquoise"]
    /\ Normalized(Position) \notin RotationKeys

\* C16: whenever a Move or a Rotate changes the position of the active
\* piece, the 4 cells of the new position are empty in the grid, also when
\* the piece lay on taken cells before the command.
C16_LandsOnEmpty ==
    [][(/\ last'.key \in MoveKeys \cup {" "}
        /\ current_piece'.position # Position)
          => \A i \in 1..4 :
                /\ InRange(board, current_piece'.position[i])
                /\ CellAt(board, current_piece'.position[i]) = None
                /\ CellAt(board', current_piece'.position[i]) = None]_vars

\* C16 witness: a piece spawned on burnt cells and a Left took it off them,
\* onto empty cells.
C16_Witness ==
    /\ locks = 1
    /\ last = [key |-> "a", legal |-> TRUE]
    /\ \E i \in 1..4 : /\ InRange(board, Position[i] + 1)
                        /\ CellAt(board, Position[i] + 1) # None
    /\ \A i \in 1..4 : CellAt(board, Position[i]) = None

\* C17: a Lock changes at most the 4 grid cells the locked piece covers:
\* every cell whose index is not one of the piece's 4 indices has the same
\* content before and after, and the grid keeps its length.
C17_LockFrame ==
    [][last'.key = "p" =>
          /\ Len(board') = Len(board)
          /\ \A c \in 0..(Len(board) - 1) :
                CellAt(board', c) # CellAt(board, c)
                    => occupies_cell(current_piece, c)]_vars

\* C17 witness: a piece that is not red was placed, and the red cell 232
\* next to none of its cells is as it was.
C17_Witness ==
    /\ last.key = "p"
    /\ locks = 1
    /\ CellAt(board, 232) = "Red"
    /\ \E color \in Color \ {"Red"} :
          Cardinality({c \in 1..Len(board) : board[c] = color}) = 4

\* C18: an accepted Left or Right keeps the row of each of the 4 cells and
\* changes its column by exactly 1; an accepted Up or Down keeps the column
\* and changes the row by exactly 1; so a Move keeps the normalized shape
\* of the piece, as does a key that is no command: among the transforms
\* only Rotate can change it.
C18_TranslationKeepsShape ==
    [][/\ (last'.key \in {"a", "d"} /\ last'.legal) =>
             \A i \in 1..4 :
                 /\ Row(current_piece'.position[i]) = Row(Position[i])
                 /\ Col(current_piece'.position[i])
                        = Col(Position[i]) + Delta(DirectionOfKey(last'.key))
       /\ (last'.key \in {"w", "s"} /\ last'.legal) =>
             \A i \in 1..4 :
                 /\ Col(current_piece'.position[i]) = Col(Position[i])
                 /\ 10 * Row(current_piece'.position[i])
                        = 10 * Row(Position[i]) + Delta(DirectionOfKey(last'.key))
       /\ last'.key \in MoveKeys \cup {"x"} =>
             Normalized(current_piece'.position) = Normalized(Position)]_vars

\* C18 witness: an accepted Right took the piece against the right edge.
C18_Witness ==
    /\ locks = 0
    /\ last = [key |-> "d", legal |-> TRUE]
    /\ \E i \in 1..4 : Col(Position[i]) = 9
    /\ \A i \in 1..4 : Col(Position[i]) > 0

\* C19: in every reachable state the 4 indices of the active piece are
\* pairwise distinct: the piece covers exactly 4 different cells.
C19_FourCells ==
    /\ Cardinality({Position[i] : i \in 1..4}) = 4
    /\ \A i, j \in 1..4 : i # j => Position[i] # Position[j]

\* C19 witness: the T piece after the first Rotate since its spawn, which
\* was accepted.
C19_Witness ==
    /\ current_piece.color = "Purple"
    /\ rotations = 1
    /\ last = [key |-> " ", legal |-> TRUE]
    /\ Position # <<5, 14, 15, 16>>

====
